---- MODULE Spec2Model ----
(***************************************************************************)
(* The DEBUG_ASSERT_WITH_MUT_CALL lint of                                  *)
(* clippy_lints/src/mutable_debug_assertion.rs: the driver (check_expr),   *)
(* the expansion matcher (extract_call) and the mutable-use detector       *)
(* (MutArgVisitor), over bounded HIR expression trees.                     *)
(*                                                                         *)
(* An expression is a record [kind, tag, stmts, kids]:                     *)
(*   kind   the ExprKind variant;                                          *)
(*   tag    the variant's non-expression payload that the code inspects    *)
(*          (borrow kind and mutability of AddrOf, the MatchSource, the    *)
(*          UnOp, and, for a Path, what the type checker's adjustment      *)
(*          table holds for its hir_id);                                   *)
(*   stmts  for a Block, the StmtKind of each statement (statement i       *)
(*          wraps kids[i]; a kid after the statements is the block's       *)
(*          trailing expression);                                          *)
(*   kids   the sub-expressions, in the order walk_expr visits them.       *)
(* A span is the position of its expression in the node handed to          *)
(* check_expr: the sequence of kid indices leading to it.  A span is a     *)
(* proper prefix of another exactly when its expression encloses the       *)
(* other's.  Option values are sequences: None is <<>>, Some(x) is <<x>>.  *)
(***************************************************************************)
EXTENDS Integers, Sequences, FiniteSets, TLC

VARIABLES node, expn, pc, findings, prev, extractCalls, visitors, visitor

vars == <<node, expn, pc, findings, prev, extractCalls, visitors, visitor>>

\* Largest number of expressions in the operand of a boolean-form node.
MaxNodes == 5

\* Largest number of expressions in the two operands of an equality-form
\* node together.
MaxPairNodes == 4

None == <<>>

Some(x) == <<x>>

DEBUG_MACRO_NAMES == <<"debug_assert", "debug_assert_eq", "debug_assert_ne">>

(***************************************************************************)
(* Expressions                                                             *)
(***************************************************************************)
Mk(kind, tag, stmts, kids) ==
    [kind |-> kind, tag |-> tag, stmts |-> stmts, kids |-> kids]

Lit == Mk("Lit", "", <<>>, <<>>)

Path(adj) == Mk("Path", adj, <<>>, <<>>)

AddrOf(tag, e) == Mk("AddrOf", tag, <<>>, <<e>>)

Unary(op, e) == Mk("Unary", op, <<>>, <<e>>)

DropTemps(e) == Mk("DropTemps", "", <<>>, <<e>>)

Tup(es) == Mk("Tup", "", <<>>, es)

Match(source, scrutinee, arms) == Mk("Match", source, <<>>, <<scrutinee>> \o arms)

Call(callee, args) == Mk("Call", "", <<>>, <<callee>> \o args)

MethodCall(args) == Mk("MethodCall", "", <<>>, args)

Block(stmts, kids) == Mk("Block", "", stmts, kids)

RECURSIVE NodeAt(_, _)
NodeAt(root, p) ==
    IF p = <<>> THEN root ELSE NodeAt(root.kids[Head(p)], Tail(p))

RECURSIVE NodeCount(_)
RECURSIVE ForestCount(_)
NodeCount(e) == 1 + ForestCount(e.kids)

ForestCount(es) ==
    IF es = <<>> THEN 0 ELSE NodeCount(Head(es)) + ForestCount(Tail(es))

RECURSIVE PathsOf(_)
PathsOf(e) ==
    {<<>>} \cup UNION {{<<i>> \o q : q \in PathsOf(e.kids[i])} : i \in 1..Len(e.kids)}

IsPrefix(p, q) == Len(p) <= Len(q) /\ SubSeq(q, 1, Len(p)) = p

Encloses(p, q) == IsPrefix(p, q) /\ p # q

(***************************************************************************)
(* MutArgVisitor                                                           *)
(*                                                                         *)
(* found and expr_span are the struct's fields.  stack holds the           *)
(* expressions on which visit_expr is still to be called, first on top:    *)
(* the pending iterations of the enclosing walk_expr calls.  visited and   *)
(* trigger are history: the expressions visit_expr was called on, in       *)
(* order, and the expression at which found was first set.                 *)
(***************************************************************************)
MutArgVisitor_new ==
    [found |-> FALSE, expr_span |-> None, stack |-> <<>>, visited |-> <<>>,
     trigger |-> None]

\* Mutant: the recorded span is returned whether or not found is set.
expr_span_unguarded(v) == v.expr_span

expr_span(v) == IF v.found THEN v.expr_span ELSE None

IsAddrOfRefMut(e) == e.kind = "AddrOf" /\ e.tag = "RefMut"

\* Mutant: the adjustment table is not consulted.
HasMutAdjustment_never(e) == FALSE

HasMutAdjustment(e) == e.kind = "Path" /\ e.tag = "AdjustMutRef"

IsAwaitDesugar(e) == e.kind = "Match" /\ e.tag = "AwaitDesugar"

KidPaths(root, p) == [i \in 1..Len(NodeAt(root, p).kids) |-> Append(p, i)]

walk_expr(root, v, p) == [v EXCEPT !.stack = KidPaths(root, p) \o @]

SetFound(v, p) ==
    [v EXCEPT !.found = TRUE, !.trigger = IF v.found THEN @ ELSE Some(p)]

\* Mutant: a Path without a mutable adjustment falls into the default arm
\* and records its span.
visit_expr_path_span(root, v, p) ==
    LET e == NodeAt(root, p)
        v1 == [v EXCEPT !.visited = Append(@, p)]
    IN  IF IsAddrOfRefMut(e) THEN SetFound(v1, p)
        ELSE IF HasMutAdjustment(e) THEN SetFound(v1, p)
        ELSE IF IsAwaitDesugar(e) THEN v1
        ELSE IF ~v.found
             THEN walk_expr(root, [v1 EXCEPT !.expr_span = Some(p)], p)
        ELSE v1

\* Mutant: no arm for the await desugaring.
visit_expr_no_await(root, v, p) ==
    LET e == NodeAt(root, p)
        v1 == [v EXCEPT !.visited = Append(@, p)]
    IN  IF IsAddrOfRefMut(e) THEN SetFound(v1, p)
        ELSE IF e.kind = "Path"
             THEN IF HasMutAdjustment(e) THEN SetFound(v1, p)
                  ELSE walk_expr(root, v1, p)
        ELSE IF ~v.found
             THEN walk_expr(root, [v1 EXCEPT !.expr_span = Some(p)], p)
        ELSE v1

\* Mutant: the default arm has no `if !self.found` guard.
visit_expr_overwrite(root, v, p) ==
    LET e == NodeAt(root, p)
        v1 == [v EXCEPT !.visited = Append(@, p)]
    IN  IF IsAddrOfRefMut(e) THEN SetFound(v1, p)
        ELSE IF e.kind = "Path"
             THEN IF HasMutAdjustment(e) THEN SetFound(v1, p)
                  ELSE walk_expr(root, v1, p)
        ELSE IF IsAwaitDesugar(e) THEN v1
        ELSE walk_expr(root, [v1 EXCEPT !.expr_span = Some(p)], p)

\* Mutant: the default arm walks the expression itself, and the walk_expr
\* after the match walks it again.
visit_expr_walk_twice(root, v, p) ==
    LET e == NodeAt(root, p)
        v1 == [v EXCEPT !.visited = Append(@, p)]
    IN  IF IsAddrOfRefMut(e) THEN SetFound(v1, p)
        ELSE IF e.kind = "Path"
             THEN IF HasMutAdjustment(e) THEN SetFound(v1, p)
                  ELSE walk_expr(root, v1, p)
        ELSE IF IsAwaitDesugar(e) THEN v1
        ELSE IF ~v.found
             THEN walk_expr(root, walk_expr(root, [v1 EXCEPT !.expr_span = Some(p)], p), p)
        ELSE v1

visit_expr(root, v, p) ==
    LET e == NodeAt(root, p)
        v1 == [v EXCEPT !.visited = Append(@, p)]
    IN  IF IsAddrOfRefMut(e) THEN SetFound(v1, p)
        ELSE IF e.kind = "Path"
             THEN IF HasMutAdjustment(e) THEN SetFound(v1, p)
                  ELSE walk_expr(root, v1, p)
        ELSE IF IsAwaitDesugar(e) THEN v1
        ELSE IF ~v.found
             THEN walk_expr(root, [v1 EXCEPT !.expr_span = Some(p)], p)
        ELSE v1

Step(root, v) ==
    visit_expr(root, [v EXCEPT !.stack = Tail(@)], Head(v.stack))

RECURSIVE Run(_, _)
Run(root, v) == IF v.stack = <<>> THEN v ELSE Run(root, Step(root, v))

Detect(root, p) == Run(root, [MutArgVisitor_new EXCEPT !.stack = <<p>>])

(***************************************************************************)
(* extract_call: the two recognised expansion shapes.  The result is the   *)
(* returned Option<Span> together with the visitors the call created, in   *)
(* the order it ran them (each in its final state).                        *)
(***************************************************************************)
IsAddrOfRef(e) == e.kind = "AddrOf" /\ e.tag \in {"RefMut", "RefNot"}

\* if let Some(ref matchheader) = matchblock.expr
HasTrailingExpr(b) == Len(b.kids) = Len(b.stmts) + 1

IsSingleSemiBlock(e) ==
    e.kind = "Block" /\ Len(e.stmts) = 1 /\ e.stmts[1] = "Semi"

\* matchexpr is Match(DropTemps(Unary(UnNot, condition)), _, _)
IsBoolShape(matchexpr) ==
    /\ matchexpr.kind = "Match"
    /\ matchexpr.kids[1].kind = "DropTemps"
    /\ matchexpr.kids[1].kids[1].kind = "Unary"
    /\ matchexpr.kids[1].kids[1].tag = "UnNot"

\* matchexpr is Block { ...; Match(Tup([_, _]), _, _) }
IsEqShape(matchexpr) ==
    /\ matchexpr.kind = "Block"
    /\ HasTrailingExpr(matchexpr)
    /\ matchexpr.kids[Len(matchexpr.kids)].kind = "Match"
    /\ matchexpr.kids[Len(matchexpr.kids)].kids[1].kind = "Tup"
    /\ Len(matchexpr.kids[Len(matchexpr.kids)].kids[1].kids) = 2

ConditionPath == <<1, 1, 1, 1>>

\* conditions[i] of the tuple in the header of the trailing match
TupElemPath(e, i) == <<1, Len(e.kids[1].kids), 1, i>>

OperandPath(e, i) == Append(TupElemPath(e, i), 1)

\* Mutant: the right operand is checked first.
extract_eq_rhs_first(e) ==
    LET lhsIsRef == IsAddrOfRef(NodeAt(e, TupElemPath(e, 1)))
        rhsIsRef == IsAddrOfRef(NodeAt(e, TupElemPath(e, 2)))
        lv == Detect(e, OperandPath(e, 1))
        rv == Detect(e, OperandPath(e, 2))
        rruns == IF rhsIsRef THEN <<rv>> ELSE <<>>
    IN  IF rhsIsRef /\ expr_span(rv) # None
        THEN [span |-> expr_span(rv), runs |-> rruns]
        ELSE IF lhsIsRef /\ expr_span(lv) # None
        THEN [span |-> expr_span(lv), runs |-> Append(rruns, lv)]
        ELSE [span |-> None, runs |-> IF lhsIsRef THEN Append(rruns, lv) ELSE rruns]

extract_eq(e) ==
    LET lhsIsRef == IsAddrOfRef(NodeAt(e, TupElemPath(e, 1)))
        rhsIsRef == IsAddrOfRef(NodeAt(e, TupElemPath(e, 2)))
        lv == Detect(e, OperandPath(e, 1))
        rv == Detect(e, OperandPath(e, 2))
        lruns == IF lhsIsRef THEN <<lv>> ELSE <<>>
    IN  IF lhsIsRef /\ expr_span(lv) # None
        THEN [span |-> expr_span(lv), runs |-> lruns]
        ELSE IF rhsIsRef /\ expr_span(rv) # None
        THEN [span |-> expr_span(rv), runs |-> Append(lruns, rv)]
        ELSE [span |-> None, runs |-> IF rhsIsRef THEN Append(lruns, rv) ELSE lruns]

extract_call(e) ==
    IF ~IsSingleSemiBlock(e) THEN [span |-> None, runs |-> <<>>]
    ELSE IF IsBoolShape(e.kids[1])
    THEN LET v == Detect(e, ConditionPath)
         IN  [span |-> expr_span(v), runs |-> <<v>>]
    ELSE IF IsEqShape(e.kids[1]) THEN extract_eq(e)
    ELSE [span |-> None, runs |-> <<>>]

(***************************************************************************)
(* check_expr: the driver.  Its outcome is the findings span_lint was      *)
(* given, the number of extract_call calls and the visitors those ran.     *)
(***************************************************************************)
\* Whether the node's span is a direct expansion of macro dmn: the answer
\* of the utility, one per name, is an input (expn holds the names for
\* which it is Some).
is_direct_expn_of(ex, dmn) == dmn \in ex

\* The format! of the message; a TLA+ string cannot hold a backquote, so
\* the two backquotes around the macro name are written as apostrophes.
Message(dmn) ==
    "do not call a function with mutable arguments inside of '" \o dmn \o "!'"

span_lint(fs, span, msg) == Append(fs, [span |-> span, msg |-> msg])

NoOutcome == [findings |-> <<>>, extractCalls |-> 0, visitors |-> <<>>]

\* Mutant: is_direct_expn_of is not asked.
check_name_unguarded(st, e, ex, dmn) ==
    LET r == extract_call(e)
        st1 == [st EXCEPT !.extractCalls = @ + 1, !.visitors = @ \o r.runs]
    IN  IF r.span # None
        THEN [st1 EXCEPT !.findings = span_lint(@, r.span[1], Message(dmn))]
        ELSE st1

\* Mutant: a match lints once for the name and once more for the node.
check_name_lint_again(st, e, ex, dmn) ==
    IF is_direct_expn_of(ex, dmn)
    THEN LET r == extract_call(e)
             st1 == [st EXCEPT !.extractCalls = @ + 1, !.visitors = @ \o r.runs]
         IN  IF r.span # None
             THEN [st1 EXCEPT !.findings =
                      span_lint(span_lint(@, r.span[1], Message(dmn)),
                                r.span[1], Message(dmn))]
             ELSE st1
    ELSE st

\* One iteration of the loop over DEBUG_MACRO_NAMES.
check_name(st, e, ex, dmn) ==
    IF is_direct_expn_of(ex, dmn)
    THEN LET r == extract_call(e)
             st1 == [st EXCEPT !.extractCalls = @ + 1, !.visitors = @ \o r.runs]
         IN  IF r.span # None
             THEN [st1 EXCEPT !.findings = span_lint(@, r.span[1], Message(dmn))]
             ELSE st1
    ELSE st

RECURSIVE check_from(_, _, _, _)
check_from(st, e, ex, i) ==
    IF i > Len(DEBUG_MACRO_NAMES) THEN st
    ELSE check_from(check_name(st, e, ex, DEBUG_MACRO_NAMES[i]), e, ex, i + 1)

check_expr(e, ex) == check_from(NoOutcome, e, ex, 1)

(***************************************************************************)
(* Operand expressions of a given size                                     *)
(***************************************************************************)
Leaves == {Lit, Path("NoAdjust"), Path("AdjustRef"), Path("AdjustMutRef")}

RECURSIVE TreesOfSize(_)
RECURSIVE ForestsOfSize(_)
TreesOfSize(n) ==
    IF n <= 0 THEN {}
    ELSE IF n = 1 THEN Leaves
    ELSE {AddrOf("RefMut", t) : t \in TreesOfSize(n - 1)}
         \cup {Match("AwaitDesugar", t, <<>>) : t \in TreesOfSize(n - 1)}
         \cup {MethodCall(<<t>>) : t \in TreesOfSize(n - 1)}
         \cup {Call(Path("NoAdjust"), f) : f \in ForestsOfSize(n - 2)}

ForestsOfSize(n) ==
    IF n <= 0 THEN {}
    ELSE {<<t>> : t \in TreesOfSize(n)}
         \cup UNION {{<<t>> \o f : t \in TreesOfSize(k), f \in ForestsOfSize(n - k)} :
                       k \in 1..(n - 1)}

Operands == UNION {TreesOfSize(n) : n \in 1..MaxNodes}

OperandPairs ==
    UNION {TreesOfSize(k) \X TreesOfSize(m) :
             <<k, m>> \in {km \in (1..MaxPairNodes) \X (1..MaxPairNodes) :
                              km[1] + km[2] <= MaxPairNodes}}

(***************************************************************************)
(* The nodes handed to check_expr                                          *)
(***************************************************************************)
ArmBody == Lit

\* { if !cond { panic } ; }
BoolForm(cond) ==
    Block(<<"Semi">>,
          <<Match("IfDesugar", DropTemps(Unary("UnNot", cond)), <<ArmBody>>)>>)

\* { { match (l, r) { .. } } ; } with l and r as the elements of the tuple
EqFormOf(l, r) ==
    Block(<<"Semi">>,
          <<Block(<<>>, <<Match("Normal", Tup(<<l, r>>), <<ArmBody>>)>>)>>)

EqForm(lhs, rhs) == EqFormOf(AddrOf("RefNot", lhs), AddrOf("RefNot", rhs))

MutCall == Call(Path("NoAdjust"), <<AddrOf("RefMut", Path("NoAdjust"))>>)

PopCall == MethodCall(<<Path("AdjustMutRef")>>)

\* Nodes that miss a recognized shape at one step of the matching,
\* around operands that use a mutable reference.
OddNodes ==
    {MutCall,
     Block(<<"Expr">>, BoolForm(MutCall).kids),
     Block(<<"Semi", "Semi">>, BoolForm(MutCall).kids \o <<Lit>>),
     Block(<<>>, BoolForm(MutCall).kids),
     Block(<<"Semi">>, <<Match("IfDesugar", Unary("UnNot", MutCall), <<ArmBody>>)>>),
     Block(<<"Semi">>, <<Match("IfDesugar", DropTemps(MutCall), <<ArmBody>>)>>),
     Block(<<"Semi">>,
           <<Match("IfDesugar", DropTemps(Unary("UnNeg", MutCall)), <<ArmBody>>)>>),
     Block(<<"Semi">>, <<DropTemps(Unary("UnNot", MutCall))>>),
     Block(<<"Semi">>, <<Block(<<"Semi">>, EqForm(MutCall, PopCall).kids[1].kids)>>),
     Block(<<"Semi">>, <<Block(<<>>, <<Tup(<<AddrOf("RefNot", MutCall), Lit>>)>>)>>),
     Block(<<"Semi">>,
           <<Block(<<>>, <<Match("Normal", AddrOf("RefNot", MutCall), <<ArmBody>>)>>)>>),
     Block(<<"Semi">>,
           <<Block(<<>>,
                   <<Match("Normal",
                           Tup(<<AddrOf("RefNot", MutCall), AddrOf("RefNot", Lit), Lit>>),
                           <<ArmBody>>)>>)>>),
     Block(<<"Semi">>,
           <<Block(<<"Local">>,
                   <<Lit, Match("Normal",
                                Tup(<<AddrOf("RefNot", Lit), AddrOf("RefNot", PopCall)>>),
                                <<ArmBody>>)>>)>>)}

\* The wrappers a tuple element may have in place of a `&`.
ElemForms(t) == {AddrOf("RefNot", t), AddrOf("RefMut", t), AddrOf("RawMut", t), Unary("UnDeref", t)}

SmallOperands == {Lit, MutCall, PopCall}

OddEqNodes ==
    {EqFormOf(l, r) : l \in UNION {ElemForms(t) : t \in SmallOperands},
                      r \in UNION {ElemForms(t) : t \in SmallOperands}}

Nodes ==
    {BoolForm(c) : c \in Operands}
    \cup {EqForm(lr[1], lr[2]) : lr \in OperandPairs}
    \cup OddNodes \cup OddEqNodes

MacroNames == {DEBUG_MACRO_NAMES[i] : i \in 1..Len(DEBUG_MACRO_NAMES)}

(***************************************************************************)
(* Spec: the lint pass is handed a node (CheckExpr), and may be handed     *)
(* the same node again (Recheck).                                          *)
(***************************************************************************)
Init ==
    /\ pc = "idle"
    /\ node = Lit
    /\ expn = {}
    /\ findings = <<>>
    /\ prev = <<>>
    /\ extractCalls = 0
    /\ visitors = <<>>
    /\ visitor = MutArgVisitor_new

CheckExpr ==
    /\ pc = "idle"
    /\ \E e \in Nodes, ex \in SUBSET MacroNames :
         LET out == check_expr(e, ex)
         IN  /\ node' = e
             /\ expn' = ex
             /\ findings' = out.findings
             /\ extractCalls' = out.extractCalls
             /\ visitors' = out.visitors
    /\ pc' = "checked"
    /\ UNCHANGED <<prev, visitor>>

Recheck ==
    /\ pc = "checked"
    /\ LET out == check_expr(node, expn)
       IN  /\ findings' = out.findings
           /\ extractCalls' = out.extractCalls
           /\ visitors' = out.visitors
    /\ prev' = findings
    /\ pc' = "rechecked"
    /\ UNCHANGED <<node, expn, visitor>>

Next == CheckExpr \/ Recheck

Spec == Init /\ [][Next]_vars

(***************************************************************************)
(* DetectorSpec: one MutArgVisitor on one operand, a visit_expr call per   *)
(* step.                                                                   *)
(***************************************************************************)
DetectorInit ==
    /\ pc = "visit"
    /\ node \in Operands
    /\ visitor = [MutArgVisitor_new EXCEPT !.stack = <<<<>>>>]
    /\ expn = {}
    /\ findings = <<>>
    /\ prev = <<>>
    /\ extractCalls = 0
    /\ visitors = <<>>

Visiting == pc = "visit" /\ visitor.stack # <<>>

Current == NodeAt(node, Head(visitor.stack))

VisitStep ==
    /\ visitor' = Step(node, visitor)
    /\ UNCHANGED <<node, expn, pc, findings, prev, extractCalls, visitors>>

VisitAddrOfMut == Visiting /\ IsAddrOfRefMut(Current) /\ VisitStep

VisitPath == Visiting /\ Current.kind = "Path" /\ VisitStep

VisitAwaitDesugar == Visiting /\ IsAwaitDesugar(Current) /\ VisitStep

VisitOther ==
    /\ Visiting
    /\ ~IsAddrOfRefMut(Current) /\ Current.kind # "Path" /\ ~IsAwaitDesugar(Current)
    /\ ~visitor.found
    /\ VisitStep

VisitAfterFound ==
    /\ Visiting
    /\ ~IsAddrOfRefMut(Current) /\ Current.kind # "Path" /\ ~IsAwaitDesugar(Current)
    /\ visitor.found
    /\ VisitStep

Return ==
    /\ pc = "visit" /\ visitor.stack = <<>>
    /\ pc' = "done"
    /\ UNCHANGED <<node, expn, findings, prev, extractCalls, visitors, visitor>>

DetectorNext ==
    \/ VisitAddrOfMut
    \/ VisitPath
    \/ VisitAwaitDesugar
    \/ VisitOther
    \/ VisitAfterFound
    \/ Return

\* The traversal is synchronous code: it runs until it returns.
DetectorSpec == DetectorInit /\ [][DetectorNext]_vars /\ WF_vars(DetectorNext)

(***************************************************************************)
(* Vocabulary of the properties, stated on the trees themselves.           *)
(***************************************************************************)
RECURSIVE HasPath(_, _)
HasPath(root, p) ==
    \/ p = <<>>
    \/ /\ Head(p) \in 1..Len(root.kids)
       /\ HasPath(root.kids[Head(p)], Tail(p))

LhsPath == <<1, 1, 1, 1, 1>>

RhsPath == <<1, 1, 1, 2, 1>>

IsBoolExpansion(n) ==
    HasPath(n, ConditionPath) /\ n = BoolForm(NodeAt(n, ConditionPath))

IsEqExpansion(n) ==
    /\ HasPath(n, LhsPath) /\ HasPath(n, RhsPath)
    /\ n = EqForm(NodeAt(n, LhsPath), NodeAt(n, RhsPath))

\* The user-written operands of a recognized expansion, left first.
UserOperands(n) ==
    IF IsBoolExpansion(n) THEN <<ConditionPath>>
    ELSE IF IsEqExpansion(n) THEN <<LhsPath, RhsPath>>
    ELSE <<>>

Range(f) == {f[i] : i \in DOMAIN f}

Under(root, p) == {p \o q : q \in PathsOf(NodeAt(root, p))}

ExplicitMutAt(root, q) ==
    NodeAt(root, q).kind = "AddrOf" /\ NodeAt(root, q).tag = "RefMut"

CoercedPathAt(root, q) ==
    NodeAt(root, q).kind = "Path" /\ NodeAt(root, q).tag = "AdjustMutRef"

AwaitAt(root, q) ==
    NodeAt(root, q).kind = "Match" /\ NodeAt(root, q).tag = "AwaitDesugar"

\* q, in the operand at p, lies inside an await-desugar match of the operand
InAwait(root, p, q) ==
    \E k \in Len(p)..(Len(q) - 1) : AwaitAt(root, SubSeq(q, 1, k))

MutUses(root, p) ==
    {q \in Under(root, p) : ExplicitMutAt(root, q) \/ CoercedPathAt(root, q)}

Checked == pc \in {"checked", "rechecked"}

ExpectedMessage ==
    [debug_assert |->
        "do not call a function with mutable arguments inside of 'debug_assert!'",
     debug_assert_eq |->
        "do not call a function with mutable arguments inside of 'debug_assert_eq!'",
     debug_assert_ne |->
        "do not call a function with mutable arguments inside of 'debug_assert_ne!'"]

FindingsFor(dmn) == SelectSeq(findings, LAMBDA f : f.msg = ExpectedMessage[dmn])

(***************************************************************************)
(* C1: in a recognized expansion whose user operand (the condition, or the *)
(* left operand of the eq/ne form) is a call of a plain path with a sole   *)
(* explicit `&mut` argument, each macro name the node is a direct          *)
(* expansion of gets exactly one Finding, at the span of that call, with   *)
(* the message naming that macro; these are all the Findings, so a node    *)
(* of one macro gets exactly one.                                          *)
(***************************************************************************)
IsSoleMutArgCall(e) ==
    /\ e.kind = "Call" /\ Len(e.kids) = 2
    /\ e.kids[1].kind = "Path" /\ e.kids[1].tag # "AdjustMutRef"
    /\ e.kids[2].kind = "AddrOf" /\ e.kids[2].tag = "RefMut"

\* C1: one Finding per matched macro name, at the call, naming the macro.
C1_MutCallReported ==
    (/\ Checked
     /\ UserOperands(node) # <<>>
     /\ IsSoleMutArgCall(NodeAt(node, UserOperands(node)[1])))
    => /\ \A dmn \in expn :
            FindingsFor(dmn) =
                <<[span |-> UserOperands(node)[1], msg |-> ExpectedMessage[dmn]]>>
       /\ Len(findings) = Cardinality(expn)

C1_Witness ==
    /\ pc = "checked"
    /\ node = EqForm(MutCall, Lit)
    /\ expn = {"debug_assert_ne"}
    /\ findings = <<[span |-> LhsPath, msg |-> ExpectedMessage["debug_assert_ne"]]>>

(***************************************************************************)
(* C2: for a node of the equality shape, the detector runs on the left     *)
(* operand first (when the left tuple element is a `&` expression) and on  *)
(* the right one only if the left gave no span; the reported span is the   *)
(* left detector's whenever it gives one, else the right detector's; and   *)
(* checking the same node again gives the same Findings.                   *)
(***************************************************************************)
HasTuple(n) ==
    /\ HasPath(n, <<1, 1, 1, 2>>)
    /\ n = EqFormOf(NodeAt(n, <<1, 1, 1, 1>>), NodeAt(n, <<1, 1, 1, 2>>))

IsRefElem(n, i) ==
    /\ NodeAt(n, <<1, 1, 1, i>>).kind = "AddrOf"
    /\ NodeAt(n, <<1, 1, 1, i>>).tag \in {"RefMut", "RefNot"}

LeftSpan(n) == IF IsRefElem(n, 1) THEN expr_span(Detect(n, LhsPath)) ELSE None

RightSpan(n) == IF IsRefElem(n, 2) THEN expr_span(Detect(n, RhsPath)) ELSE None

\* The operands one extract_call runs a detector on, in order.
ExpectedRuns(n) ==
    (IF IsRefElem(n, 1) THEN <<LhsPath>> ELSE <<>>)
    \o (IF IsRefElem(n, 2) /\ LeftSpan(n) = None THEN <<RhsPath>> ELSE <<>>)

ExpectedSpan(n) == IF LeftSpan(n) # None THEN LeftSpan(n) ELSE RightSpan(n)

CoercionOnly(n, p) ==
    /\ \A q \in Under(n, p) : ~ExplicitMutAt(n, q)
    /\ \E q \in Under(n, p) : CoercedPathAt(n, q) /\ ~InAwait(n, p, q)

\* C3 as stated: a coerced path, the operand itself included, gets a Finding.
C3_CoercionFound_AsStated ==
    (/\ Checked /\ expn # {}
     /\ \E p \in Range(UserOperands(node)) : CoercionOnly(node, p))
    => findings # <<>>

(***************************************************************************)
(* C3 amended: the same, for an operand that is not itself the coerced     *)
(* path (the path is a proper sub-expression of the operand).              *)
(***************************************************************************)
C3_CoercionFound ==
    (/\ Checked /\ expn # {}
     /\ \E p \in Range(UserOperands(node)) :
            CoercionOnly(node, p) /\ ~CoercedPathAt(node, p))
    => findings # <<>>

C3_Witness ==
    /\ pc = "checked"
    /\ node = BoolForm(PopCall)
    /\ expn = {"debug_assert"}
    /\ findings =
         <<[span |-> ConditionPath, msg |-> ExpectedMessage["debug_assert"]]>>

(***************************************************************************)
(* C4: no detector calls visit_expr on an expression inside an             *)
(* await-desugar match, sets found at such a match or records its span;    *)
(* a detector whose operand has every explicit `&mut` and every coerced    *)
(* path inside such matches returns no span; and a node all of whose       *)
(* operands are so gets no Finding.                                        *)
(***************************************************************************)
AllMutUsesInAwait(n, p) == \A q \in MutUses(n, p) : InAwait(n, p, q)

\* C4: await-desugar matches are neither walked nor flagged.
C4_AwaitSkipped ==
    Checked
    => /\ \A i \in 1..Len(visitors) :
            LET v == visitors[i]
                p == v.visited[1]
            IN  /\ \A q \in Range(v.visited) : ~InAwait(node, p, q)
                /\ v.trigger # None => ~AwaitAt(node, v.trigger[1])
                /\ v.expr_span # None => ~AwaitAt(node, v.expr_span[1])
                /\ AllMutUsesInAwait(node, p) => expr_span(v) = None
       /\ (/\ UserOperands(node) # <<>>
           /\ \A p \in Range(UserOperands(node)) : AllMutUsesInAwait(node, p))
          => findings = <<>>

C4_Witness ==
    /\ pc = "checked"
    /\ node = BoolForm(Match("AwaitDesugar", MutCall, <<>>))
    /\ expn = {"debug_assert"}
    /\ Len(visitors) = 1
    /\ findings = <<>>

(***************************************************************************)
(* C5: for a node that is a direct expansion of none of the three macros,  *)
(* check_expr makes no extract_call call, runs no detector and emits no    *)
(* Finding, whatever the node's shape and operands.                        *)
(***************************************************************************)
C5_OnlyExpansions ==
    (Checked /\ expn = {})
    => extractCalls = 0 /\ visitors = <<>> /\ findings = <<>>

C5_Witness ==
    /\ pc = "checked"
    /\ node = BoolForm(MutCall)
    /\ expn = {}
    /\ findings = <<>>

(***************************************************************************)
(* C6 as stated: whatever names the node is a direct expansion of, one     *)
(* check_expr call emits zero or one Finding.                              *)
(***************************************************************************)
C6_AtMostOne_AsStated == Checked => Len(findings) <= 1

(***************************************************************************)
(* C6 amended: one check_expr call emits at most one Finding per macro     *)
(* name the node is a direct expansion of, all at the same span: none, or  *)
(* one for each such name; so zero or one when it is an expansion of at    *)
(* most one of them.                                                       *)
(***************************************************************************)
C6_AtMostOnePerName ==
    Checked
    => /\ Len(findings) \in {0, Cardinality(expn)}
       /\ \A dmn \in MacroNames :
            Len(FindingsFor(dmn)) <= (IF dmn \in expn THEN 1 ELSE 0)
       /\ \A i, j \in 1..Len(findings) : findings[i].span = findings[j].span
       /\ Cardinality(expn) <= 1 => Len(findings) <= 1

C6_Witness ==
    /\ pc = "checked"
    /\ node = BoolForm(MutCall)
    /\ expn = {"debug_assert", "debug_assert_eq"}
    /\ Len(findings) = 2

(***************************************************************************)
(* C7: every Finding comes with a detector run that reached an explicit    *)
(* `&mut` expression or a mutably-coerced path; a boolean-form node whose  *)
(* condition holds neither gets no Finding, whatever span its detector     *)
(* recorded on the way.                                                    *)
(***************************************************************************)
C7_OnlyWhenFound ==
    Checked
    => /\ findings # <<>>
          => \E i \in 1..Len(visitors) :
                \E q \in Range(visitors[i].visited) :
                    ExplicitMutAt(node, q) \/ CoercedPathAt(node, q)
       /\ (IsBoolExpansion(node) /\ MutUses(node, ConditionPath) = {})
          => /\ findings = <<>>
             /\ \A i \in 1..Len(visitors) : expr_span(visitors[i]) = None

C7_Witness ==
    /\ pc = "checked"
    /\ node = BoolForm(Call(Path("NoAdjust"), <<Lit>>))
    /\ expn = {"debug_assert"}
    /\ visitors[1].expr_span = Some(ConditionPath \o <<2>>)
    /\ findings = <<>>

(***************************************************************************)
(* C8: the traversal calls visit_expr on expressions of the operand only,  *)
(* on none of them twice, and it returns, with no span or with the span    *)
(* of an expression of the operand.                                        *)
(***************************************************************************)
C8_Safe ==
    /\ \A i, j \in 1..Len(visitor.visited) :
          visitor.visited[i] = visitor.visited[j] => i = j
    /\ Range(visitor.visited) \subseteq PathsOf(node)
    /\ Range(visitor.stack) \subseteq PathsOf(node)
    /\ pc = "done" => expr_span(visitor) \in {None} \cup {Some(q) : q \in PathsOf(node)}

\* C8: no expression is visited twice, and the traversal returns.
C8_Terminates == []C8_Safe /\ <>(pc = "done")

C8_Witness ==
    /\ pc = "done"
    /\ NodeCount(node) = MaxNodes
    /\ Len(visitor.visited) = MaxNodes
    /\ expr_span(visitor) = None

(***************************************************************************)
(* C9: a span the detector returns is the span of an expression that       *)
(* encloses the expression that set found.                                 *)
(***************************************************************************)
C9_SpanEnclosesTrigger ==
    (pc = "done" /\ expr_span(visitor) # None)
    => Encloses(expr_span(visitor)[1], visitor.trigger[1])

(***************************************************************************)
(* C10: once found is set it stays set, the recorded span is not written   *)
(* again and no visit_expr call walks into its expression; visit_expr is   *)
(* never called inside the expression that set found, and the recorded     *)
(* span is never inside it.                                                *)
(***************************************************************************)
C10_Step ==
    visitor.found
    => /\ visitor'.found
       /\ visitor'.expr_span = visitor.expr_span
       /\ visitor'.trigger = visitor.trigger
       /\ \/ visitor'.stack = visitor.stack
          \/ visitor.stack # <<>> /\ visitor'.stack = Tail(visitor.stack)

C10_Outside ==
    /\ visitor.found = (visitor.trigger # None)
    /\ visitor.found
       => /\ ExplicitMutAt(node, visitor.trigger[1])
             \/ CoercedPathAt(node, visitor.trigger[1])
          /\ \A q \in Range(visitor.visited) \cup Range(visitor.stack) :
                ~Encloses(visitor.trigger[1], q)
          /\ visitor.expr_span # None
             => ~IsPrefix(visitor.trigger[1], visitor.expr_span[1])

\* C10: nothing changes after found is set, and nothing inside the trigger
\* is visited or recorded.
C10_FirstFoundWins == [][C10_Step]_vars /\ []C10_Outside

C10_Witness ==
    /\ pc = "done"
    /\ visitor.found
    /\ visitor.visited[Len(visitor.visited)] # visitor.trigger[1]
    /\ NodeAt(node, visitor.visited[Len(visitor.visited)]).kind = "MethodCall"

====
